---- MODULE Spec2Model ----
(***************************************************************************)
(* A model of the MacroBiscuit API (src/app/main.py): the three database   *)
(* backed operations get_series, list_indicators and the refresh stub,     *)
(* each run by a request slot that steps through the handler's statements. *)
(* A step is get_conn or one cur.execute with the Python that follows it   *)
(* up to the next statement sent to the database; connect and execute may  *)
(* raise the driver's error.  The cursor each handler opens on its own     *)
(* connection lives and dies with that connection and is not a variable.   *)
(*                                                                         *)
(* Values.  Python and SQL scalars are boxed in one-field records so that  *)
(* any two of them can be compared: Str("x") is a text, Num(1) an integer, *)
(* Decimal(5) a numeric as the driver hands it over, Float(5) the result   *)
(* of float(), Date(3) the calendar day 3, NULL the SQL null and None      *)
(* Python's None.  A dict or a DictRow is a record from keys to values; a  *)
(* list is a sequence.                                                     *)
(***************************************************************************)
EXTENDS Integers, Sequences, FiniteSets, TLC

VARIABLES
    DATABASE_URL,        \* the module global read from the environment
    indicators,          \* table public.indicators: a set of rows
    indicator_metadata,  \* table public.indicator_metadata: a set of rows
    observations,        \* table public.observations: a set of rows
    conns,               \* the database connections that are open
    req                  \* request slot -> the request it serves and its locals

vars == <<DATABASE_URL, indicators, indicator_metadata, observations, conns, req>>

tables == <<indicators, indicator_metadata, observations>>

-----------------------------------------------------------------------------
(* Bounds of the model *)

\* the request slots of the concurrent specification
NumReqs == 2
\* the most observations a series holds in an initial database
MaxObs == 122

(* Program constants *)

\* the length of the `recent` window
RecentWindow == 120

-----------------------------------------------------------------------------
(* Values *)

None == [none |-> TRUE]
NULL == [null |-> TRUE]
Str(s) == [str |-> s]
Num(n) == [int |-> n]
Decimal(n) == [decimal |-> n]
Date(d) == [date |-> d]
Float(n) == [float |-> n]

\* float(x) of a Decimal: the same number as a float
ToFloat(x) == Float(x.decimal)

\* the driver's adaptation of a column value: NULL becomes None
Adapt(v) == IF v = NULL THEN None ELSE v

\* a fetched row as a DictRow
AdaptRow(row) == [c \in DOMAIN row |-> Adapt(row[c])]

\* SELECT <cols> of one row
Project(row, cols) == [c \in cols |-> row[c]]

\* Python truthiness of what fetchone returns and of DATABASE_URL
Truthy(v) == v # None /\ v # Str("")

\* dict.get(key)
DictGet(d, k) == IF k \in DOMAIN d THEN d[k] ELSE None

\* s[-k:] of a list
SliceLast(s, k) ==
    LET n == Len(s)
        start == IF n - k < 0 THEN 0 ELSE n - k
    IN  SubSeq(s, start + 1, n)

\* lexicographic order of two sort keys (integer tuples of one length)
RECURSIVE KeyLess(_, _)
KeyLess(k1, k2) ==
    IF k1 = <<>> THEN FALSE
    ELSE IF Head(k1) # Head(k2) THEN Head(k1) < Head(k2)
    ELSE KeyLess(Tail(k1), Tail(k2))

\* a pair of K with at most half of K's keys below its own and at most half
\* above
Median(K) ==
    CHOOSE x \in K :
        /\ Cardinality({y \in K : KeyLess(y[1], x[1])}) <= Cardinality(K) \div 2
        /\ Cardinality({y \in K : KeyLess(x[1], y[1])}) <= Cardinality(K) \div 2

\* ORDER BY: the rows of a set of <<sort key, row>> pairs as a list, least key
\* first
RECURSIVE SortKeyed(_)
RECURSIVE SortAround(_, _)
SortAround(K, p) ==
    SortKeyed({y \in K : KeyLess(y[1], p[1])}) \o <<p[2]>>
        \o SortKeyed({y \in K \ {p} : ~KeyLess(y[1], p[1])})

SortKeyed(K) == IF K = {} THEN <<>> ELSE SortAround(K, Median(K))

-----------------------------------------------------------------------------
(* The database *)

Ids == {"cpi", "gdp", "m2"}

\* the collation of the ids: "cpi" < "gdp" < "m2"
IdRank(id) == CASE id = "cpi" -> 1 [] id = "gdp" -> 2 [] id = "m2" -> 3

MetaColumns ==
    {"category", "description", "frequency", "unit_display", "unit", "source",
     "source_url", "methodology_url", "release_schedule", "country",
     "display_priority", "decimal_places"}

ListColumns ==
    {"id", "title", "source", "unit", "category", "description", "frequency",
     "unit_display", "release_schedule", "country", "display_priority",
     "decimal_places"}

ListMetaKeys ==
    {"category", "description", "frequency", "unit_display", "release_schedule",
     "country", "display_priority", "decimal_places"}

\* a row of public.indicators
IndicatorRow(id, src) ==
    [id |-> Str(id), title |-> Str(id), source |-> src, unit |-> src]

\* a row of public.indicator_metadata
MetaRow(id, src, prio) ==
    [id |-> Str(id), category |-> Str("prices"), description |-> NULL,
     frequency |-> Str("monthly"), unit_display |-> NULL, unit |-> src,
     source |-> src, source_url |-> NULL, methodology_url |-> NULL,
     release_schedule |-> NULL, country |-> Str("US"),
     display_priority |-> prio, decimal_places |-> Num(1)]

\* a row of public.observations
ObsRow(id, d) ==
    [series_id |-> Str(id), date |-> Date(d), value |-> Decimal(100 + d)]

\* the observations of one series on the days 1..n
ObsOf(id, n) == {ObsRow(id, d) : d \in 1..n}

-----------------------------------------------------------------------------
(* Requests *)

\* the request slots there can be; a specification uses some of them
Slots == 1..NumReqs

NoConn == 0
NoResp == [kind |-> "none"]
Returned(v) == [kind |-> "return", value |-> v]
Raised(e) == [kind |-> "raise", exc |-> e]

HTTPException(code, detail) ==
    [type |-> "HTTPException", status_code |-> code, detail |-> detail]
RuntimeError(msg) == [type |-> "RuntimeError", msg |-> msg]
\* what psycopg2 raises when connect or execute fails
DatabaseError == [type |-> "psycopg2.Error"]

\* the routes: handler and the methods it is registered for
Routes ==
    {<<"get_series", "GET">>, <<"list_indicators", "GET">>,
     <<"refresh", "GET">>, <<"refresh", "POST">>}

IdleReq ==
    [pc |-> "idle", handler |-> "none", method |-> "none", series_id |-> "none",
     conn |-> NoConn, queries |-> <<>>, title |-> None, metadata |-> None,
     resp |-> NoResp]

-----------------------------------------------------------------------------
(* get_conn and the handlers' computations *)

\* psycopg2.connect: a connection no open connection is
NewConn == CHOOSE c \in 1..(Cardinality(conns) + 1) :
              c \notin conns /\ \A d \in 1..(c - 1) : d \in conns

\* SELECT title FROM public.indicators WHERE id = %s; fetchone()
FetchTitle(series_id) ==
    LET rows == {Project(i, {"title"}) : i \in {x \in indicators : x.id = Str(series_id)}}
    IN  IF rows = {} THEN None ELSE AdaptRow(CHOOSE row \in rows : TRUE)

\* SELECT category, ... FROM public.indicator_metadata WHERE id = %s; fetchone()
FetchMeta(series_id) ==
    LET rows == {Project(m, MetaColumns) :
                    m \in {x \in indicator_metadata : x.id = Str(series_id)}}
    IN  IF rows = {} THEN None ELSE AdaptRow(CHOOSE row \in rows : TRUE)

\* MetaDict as it would be without the `else {}`
MetaDictUnguarded(meta) == meta

\* metadata = dict(meta) if meta else {}
MetaDict(meta) == IF Truthy(meta) THEN meta ELSE [k \in {} |-> None]

\* the sort key of ORDER BY date ASC
DateKey(o) == <<o.date.date>>

\* SELECT date, value FROM public.observations WHERE series_id = %s
\* ORDER BY date ASC; fetchall()
FetchObservations(series_id) ==
    LET rows == {Project(o, {"date", "value"}) :
                    o \in {x \in observations : x.series_id = Str(series_id)}}
        sorted == SortKeyed({<<DateKey(x), x>> : x \in rows})
    IN  [i \in 1..Len(sorted) |-> AdaptRow(sorted[i])]

\* full = [{"date": r["date"], "value": float(r["value"])} for r in full_rows]
Full(full_rows) ==
    [i \in 1..Len(full_rows) |->
        [date |-> full_rows[i].date, value |-> ToFloat(full_rows[i].value)]]

\* Latest as it would be with full[0] for full[-1]
LatestFirst(full) == IF full # <<>> THEN full[1] ELSE None

\* latest = full[-1] if full else None
Latest(full) == IF full # <<>> THEN full[Len(full)] ELSE None

\* Recent as it would be with full[:120] for full[-120:]
RecentFirst(full) ==
    IF Len(full) > RecentWindow THEN SubSeq(full, 1, RecentWindow) ELSE full

\* recent = full[-120:] if len(full) > 120 else full
Recent(full) ==
    IF Len(full) > RecentWindow THEN SliceLast(full, RecentWindow) ELSE full

\* SeriesBody as it would be if source and unit fell back to the indicator's own
SeriesBodyMerged(series_id, title, metadata, full) ==
    LET own == CHOOSE i \in indicators : i.id = Str(series_id)
        merged(k) == IF DictGet(metadata, k) # None THEN metadata[k]
                     ELSE Adapt(own[k])
    IN  [id |-> Str(series_id),
         title |-> title,
         source |-> merged("source"),
         unit |-> merged("unit"),
         latest |-> Latest(full),
         recent |-> Recent(full),
         full |-> full,
         metadata |-> metadata]

\* the dict get_series returns
SeriesBody(series_id, title, metadata, full) ==
    [id |-> Str(series_id),
     title |-> title,
     source |-> DictGet(metadata, "source"),
     unit |-> DictGet(metadata, "unit"),
     latest |-> Latest(full),
     recent |-> Recent(full),
     full |-> full,
     metadata |-> metadata]

\* FROM public.indicators i LEFT JOIN public.indicator_metadata m ON i.id = m.id
LeftJoin ==
    UNION {
        LET ms == {m \in indicator_metadata : m.id = i.id}
        IN  IF ms = {}
            THEN {[c \in ListColumns |->
                      IF c \in {"id", "title"} THEN i[c] ELSE NULL]}
            ELSE {[c \in ListColumns |->
                      IF c \in {"id", "title"} THEN i[c] ELSE m[c]] : m \in ms}
        : i \in indicators}

\* ListKey as it would be with NULLS FIRST
ListKeyNullsFirst(row) ==
    LET p == row.display_priority
    IN  <<IF p = NULL THEN 0 ELSE 1, IF p = NULL THEN 0 ELSE p.int, IdRank(row.id.str)>>

\* the sort key of ORDER BY m.display_priority NULLS LAST, i.id
ListKey(row) ==
    LET p == row.display_priority
    IN  <<IF p = NULL THEN 1 ELSE 0, IF p = NULL THEN 0 ELSE p.int, IdRank(row.id.str)>>

\* the rows list_indicators fetches
FetchList ==
    LET sorted == SortKeyed({<<ListKey(x), x>> : x \in LeftJoin})
    IN  [i \in 1..Len(sorted) |-> AdaptRow(sorted[i])]

\* one entry of the list list_indicators returns
ListEntry(r) ==
    [id |-> r.id, title |-> r.title, source |-> r.source, unit |-> r.unit,
     metadata |-> [k \in ListMetaKeys |-> r[k]]]

ListResult(rows) == [i \in 1..Len(rows) |-> ListEntry(rows[i])]

\* the dict refresh returns
RefreshAck ==
    [ok |-> TRUE, mode |-> "manual",
     message |-> "Update data directly in Supabase (public.observations)."]

-----------------------------------------------------------------------------
(* The handlers, statement by statement *)

\* cur.execute on the slot's connection: the statement is logged with whether
\* the database ran it (ok) or the driver raised
Executed(q, stmt, ok) == [q EXCEPT !.queries = Append(@, [stmt |-> stmt, ok |-> ok])]

\* a request for one of the ids is routed to its handler
Begin(r, ids) ==
    /\ r \in DOMAIN req
    /\ req[r].pc \in {"idle", "done"}
    /\ \E route \in Routes :
       \E id \in IF route[1] = "list_indicators" THEN {"none"} ELSE ids :
          req' = [req EXCEPT ![r] =
                    [IdleReq EXCEPT
                        !.pc = IF route[1] = "refresh" THEN "refresh" ELSE "get_conn",
                        !.handler = route[1],
                        !.method = route[2],
                        !.series_id = id]]
    /\ UNCHANGED <<DATABASE_URL, tables, conns>>

\* GetConn as it would be with `if DATABASE_URL is None`
GetConnNoneOnly(r) ==
    /\ r \in DOMAIN req
    /\ req[r].pc = "get_conn"
    /\ IF DATABASE_URL = None
       THEN /\ req' = [req EXCEPT
                         ![r].resp = Raised(RuntimeError("DATABASE_URL env var not set")),
                         ![r].pc = "done"]
            /\ UNCHANGED conns
       ELSE /\ conns' = conns \cup {NewConn}
            /\ req' = [req EXCEPT
                         ![r].conn = NewConn,
                         ![r].pc = IF req[r].handler = "get_series"
                                   THEN "q_title" ELSE "q_list"]
    /\ UNCHANGED <<DATABASE_URL, tables>>

\* conn = get_conn()
GetConn(r) ==
    /\ r \in DOMAIN req
    /\ req[r].pc = "get_conn"
    /\ IF ~Truthy(DATABASE_URL)
       THEN /\ req' = [req EXCEPT
                         ![r].resp = Raised(RuntimeError("DATABASE_URL env var not set")),
                         ![r].pc = "done"]
            /\ UNCHANGED conns
       ELSE \E ok \in BOOLEAN :
              IF ok
              THEN /\ conns' = conns \cup {NewConn}
                   /\ req' = [req EXCEPT
                                ![r].conn = NewConn,
                                ![r].pc = IF req[r].handler = "get_series"
                                          THEN "q_title" ELSE "q_list"]
              ELSE /\ req' = [req EXCEPT ![r].resp = Raised(DatabaseError),
                                         ![r].pc = "done"]
                   /\ UNCHANGED conns
    /\ UNCHANGED <<DATABASE_URL, tables>>

\* QueryTitle as it would be without the `if not row_title: raise`
QueryTitleNoCheck(r) ==
    /\ r \in DOMAIN req
    /\ req[r].pc = "q_title"
    /\ \E ok \in BOOLEAN :
         LET q == Executed(req[r], "indicators", ok)
             row_title == FetchTitle(q.series_id)
         IN  IF ~ok
             THEN req' = [req EXCEPT ![r] =
                            [q EXCEPT !.resp = Raised(DatabaseError), !.pc = "finally"]]
             ELSE req' = [req EXCEPT ![r] =
                            [q EXCEPT !.title = DictGet(row_title, "title"),
                                      !.pc = "q_meta"]]
    /\ UNCHANGED <<DATABASE_URL, tables, conns>>

\* get_series: the title query and the 404
QueryTitle(r) ==
    /\ r \in DOMAIN req
    /\ req[r].pc = "q_title"
    /\ \E ok \in BOOLEAN :
         LET q == Executed(req[r], "indicators", ok)
             row_title == FetchTitle(q.series_id)
         IN  IF ~ok
             THEN req' = [req EXCEPT ![r] =
                            [q EXCEPT !.resp = Raised(DatabaseError), !.pc = "finally"]]
             ELSE IF ~Truthy(row_title)
             THEN req' = [req EXCEPT ![r] =
                            [q EXCEPT !.resp = Raised(HTTPException(404, "Indicator not found")),
                                      !.pc = "finally"]]
             ELSE req' = [req EXCEPT ![r] =
                            [q EXCEPT !.title = row_title.title, !.pc = "q_meta"]]
    /\ UNCHANGED <<DATABASE_URL, tables, conns>>

\* get_series: the metadata query
QueryMeta(r) ==
    /\ r \in DOMAIN req
    /\ req[r].pc = "q_meta"
    /\ \E ok \in BOOLEAN :
         LET q == Executed(req[r], "indicator_metadata", ok)
         IN  IF ~ok
             THEN req' = [req EXCEPT ![r] =
                            [q EXCEPT !.resp = Raised(DatabaseError), !.pc = "finally",
                                      !.title = None]]
             ELSE req' = [req EXCEPT ![r] =
                            [q EXCEPT !.metadata = MetaDict(FetchMeta(q.series_id)),
                                      !.pc = "q_obs"]]
    /\ UNCHANGED <<DATABASE_URL, tables, conns>>

\* QueryObs as it would be if get_series stored an observation of its own, the
\* way the refresh of an earlier revision did
QueryObsInsert(r) ==
    /\ r \in DOMAIN req
    /\ req[r].pc = "q_obs"
    /\ \E ok \in BOOLEAN :
         LET q == Executed(req[r], "observations", ok)
             full == Full(FetchObservations(q.series_id))
         IN  req' = [req EXCEPT ![r] =
                       [q EXCEPT
                          !.resp = IF ok
                                   THEN Returned(SeriesBody(q.series_id, q.title,
                                                            q.metadata, full))
                                   ELSE Raised(DatabaseError),
                          !.pc = "finally", !.title = None, !.metadata = None]]
    /\ observations' =
         observations \cup {ObsRow(req[r].series_id, Cardinality(observations) + 1)}
    /\ UNCHANGED <<DATABASE_URL, indicators, indicator_metadata, conns>>

\* get_series: the observations query and the returned dict
QueryObs(r) ==
    /\ r \in DOMAIN req
    /\ req[r].pc = "q_obs"
    /\ \E ok \in BOOLEAN :
         LET q == Executed(req[r], "observations", ok)
             full == Full(FetchObservations(q.series_id))
         IN  req' = [req EXCEPT ![r] =
                       [q EXCEPT
                          !.resp = IF ok
                                   THEN Returned(SeriesBody(q.series_id, q.title,
                                                            q.metadata, full))
                                   ELSE Raised(DatabaseError),
                          !.pc = "finally", !.title = None, !.metadata = None]]
    /\ UNCHANGED <<DATABASE_URL, tables, conns>>

\* list_indicators: the join query and the returned list
QueryList(r) ==
    /\ r \in DOMAIN req
    /\ req[r].pc = "q_list"
    /\ \E ok \in BOOLEAN :
         LET q == Executed(req[r], "indicators LEFT JOIN indicator_metadata", ok)
         IN  req' = [req EXCEPT ![r] =
                       [q EXCEPT
                          !.resp = IF ok THEN Returned(ListResult(FetchList))
                                   ELSE Raised(DatabaseError),
                          !.pc = "finally"]]
    /\ UNCHANGED <<DATABASE_URL, tables, conns>>

\* Close as it would be with conn.close() after the return and not in a finally
CloseOnReturn(r) ==
    /\ r \in DOMAIN req
    /\ req[r].pc = "finally"
    /\ conns' = IF req[r].resp.kind = "return" THEN conns \ {req[r].conn} ELSE conns
    /\ req' = [req EXCEPT ![r].pc = "done"]
    /\ UNCHANGED <<DATABASE_URL, tables>>

\* finally: conn.close()
Close(r) ==
    /\ r \in DOMAIN req
    /\ req[r].pc = "finally"
    /\ conns' = conns \ {req[r].conn}
    /\ req' = [req EXCEPT ![r].pc = "done"]
    /\ UNCHANGED <<DATABASE_URL, tables>>

\* Refresh as it was in the revision that checked the id and stored a value
RefreshSuperseded(r) ==
    /\ r \in DOMAIN req
    /\ req[r].pc = "refresh"
    /\ IF FetchTitle(req[r].series_id) = None
       THEN /\ req' = [req EXCEPT
                         ![r].resp = Raised(HTTPException(404, "Series not found")),
                         ![r].pc = "done"]
            /\ UNCHANGED observations
       ELSE /\ req' = [req EXCEPT ![r].resp = Returned(RefreshAck), ![r].pc = "done"]
            /\ observations' =
                 observations \cup {ObsRow(req[r].series_id, Cardinality(observations) + 1)}
    /\ UNCHANGED <<DATABASE_URL, indicators, indicator_metadata, conns>>

\* refresh
Refresh(r) ==
    /\ r \in DOMAIN req
    /\ req[r].pc = "refresh"
    /\ req' = [req EXCEPT ![r].resp = Returned(RefreshAck), ![r].pc = "done"]
    /\ UNCHANGED <<DATABASE_URL, tables, conns>>

\* the steps of the service when the requests are for the ids given
Serve(ids) ==
    \E r \in Slots :
        \/ Begin(r, ids)
        \/ GetConn(r)
        \/ QueryTitle(r)
        \/ QueryMeta(r)
        \/ QueryObs(r)
        \/ QueryList(r)
        \/ Close(r)
        \/ Refresh(r)

Next == Serve(Ids)

-----------------------------------------------------------------------------
(* Initial states *)

Urls == {None, Str(""), Str("postgresql://db/macro")}

\* the rows of one id: in the catalog or not, with metadata or not, n observations
CatalogChoices(id) ==
    {{}, {IndicatorRow(id, NULL)}, {IndicatorRow(id, Str("BLS"))}}
MetaChoices(id) ==
    {{}, {MetaRow(id, NULL, NULL)}, {MetaRow(id, Str("FRED"), Num(1))}}
ObsCounts == {0, 1, RecentWindow - 1, RecentWindow, RecentWindow + 1, MaxObs}

\* one request slot; "cpi" with every combination of rows, "gdp" listed with
\* two observations and no metadata, "m2" without any row
Init ==
    /\ DATABASE_URL \in Urls
    /\ \E c \in CatalogChoices("cpi") : indicators = c \cup {IndicatorRow("gdp", NULL)}
    /\ indicator_metadata \in MetaChoices("cpi")
    /\ \E n \in ObsCounts : observations = ObsOf("cpi", n) \cup ObsOf("gdp", 2)
    /\ conns = {}
    /\ req = [r \in 1..1 |-> IdleReq]

Spec == Init /\ [][Next]_vars

\* the priorities a metadata row of the listing databases has
ListPriorities == {NULL, Num(1), Num(2)}

\* the rows of one id in a listing database
ListChoices(id) ==
    {<<{}, {}>>, <<{IndicatorRow(id, NULL)}, {}>>}
        \cup {<<{IndicatorRow(id, NULL)}, {MetaRow(id, Str("FRED"), p)}>> :
                p \in ListPriorities}

\* one request slot; every id listed or not, with or without metadata and
\* with every priority; no observations
InitList ==
    /\ DATABASE_URL = Str("postgresql://db/macro")
    /\ \E c \in [Ids -> UNION {ListChoices(id) : id \in Ids}] :
          /\ \A id \in Ids : c[id] \in ListChoices(id)
          /\ indicators = UNION {c[id][1] : id \in Ids}
          /\ indicator_metadata = UNION {c[id][2] : id \in Ids}
    /\ observations = {}
    /\ conns = {}
    /\ req = [r \in 1..1 |-> IdleReq]

SpecList == InitList /\ [][Next]_vars

\* NumReqs request slots served concurrently; "cpi" listed with metadata and
\* two observations, "gdp" listed without either, "m2" not listed
InitConc ==
    /\ DATABASE_URL \in {None, Str("postgresql://db/macro")}
    /\ indicators = {IndicatorRow("cpi", NULL), IndicatorRow("gdp", NULL)}
    /\ indicator_metadata = {MetaRow("cpi", Str("FRED"), Num(1))}
    /\ observations = ObsOf("cpi", 2)
    /\ conns = {}
    /\ req = [r \in Slots |-> IdleReq]

\* a listed id and an id without any row
ConcIds == {"cpi", "m2"}

NextConc == Serve(ConcIds)

SpecConc == InitConc /\ [][NextConc]_vars

-----------------------------------------------------------------------------
(* The claims *)

Min(a, b) == IF a < b THEN a ELSE b

\* slot r has delivered the outcome of a request to handler h
Done(r, h) == req[r].pc = "done" /\ req[r].handler = h

\* slot r has delivered the value handler h returned
DoneReturned(r, h) == Done(r, h) /\ req[r].resp.kind = "return"

\* the tables' rows of an id
CatalogRows(id) == {i \in indicators : i.id = Str(id)}
MetaRows(id) == {m \in indicator_metadata : m.id = Str(id)}
ObsRows(id) == {o \in observations : o.series_id = Str(id)}

\* the request of slot r got a connection and the driver raised on none of
\* its statements
FaultFree(r) ==
    /\ Truthy(DATABASE_URL)
    /\ req[r].conn # NoConn
    /\ \A i \in 1..Len(req[r].queries) : req[r].queries[i].ok

NotFound == Raised(HTTPException(404, "Indicator not found"))

\* C1: whenever get_series returns, `full` holds exactly the stored observations
\* of the id, one element each with the value as a float, in strictly ascending
\* date order, and `recent` is the last min(120, n) elements of `full` in the
\* same order.
C1_RecentIsSuffixOfFull ==
    \A r \in DOMAIN req :
        DoneReturned(r, "get_series") =>
            LET full == req[r].resp.value.full
                recent == req[r].resp.value.recent
                rows == ObsRows(req[r].series_id)
                n == Len(full)
                k == Min(RecentWindow, n)
            IN  /\ n = Cardinality(rows)
                /\ \A o \in rows : \E i \in 1..n :
                      full[i] = [date |-> o.date, value |-> Float(o.value.decimal)]
                /\ \A i \in 1..(n - 1) : full[i].date.date < full[i + 1].date.date
                /\ Len(recent) = k
                /\ \A j \in 1..k : recent[j] = full[n - k + j]

\* get_series has returned a history of RecentWindow + 1 observations, so that
\* `recent` leaves out the first of them
C1_Witness ==
    \E r \in DOMAIN req :
        /\ DoneReturned(r, "get_series")
        /\ Len(req[r].resp.value.full) = RecentWindow + 1
        /\ Len(req[r].resp.value.recent) = RecentWindow
        /\ req[r].resp.value.recent[1] = req[r].resp.value.full[2]

\* C2: whenever get_series returns, `latest` is None exactly when `full` is
\* empty, and otherwise is the last element of `full` and of `recent`.
C2_LatestIsLast ==
    \A r \in DOMAIN req :
        DoneReturned(r, "get_series") =>
            LET b == req[r].resp.value
            IN  /\ (b.latest = None) <=> (b.full = <<>>)
                /\ b.full # <<>> =>
                      /\ b.latest = b.full[Len(b.full)]
                      /\ b.recent # <<>>
                      /\ b.latest = b.recent[Len(b.recent)]

\* get_series has returned a history of several observations with its latest
C2_Witness ==
    \E r \in DOMAIN req :
        /\ DoneReturned(r, "get_series")
        /\ Len(req[r].resp.value.full) > RecentWindow
        /\ req[r].resp.value.latest.date = Date(Len(req[r].resp.value.full))

\* C3: a get_series request for an id without a catalog row never returns a
\* dict and runs no statement but the title query, whatever metadata and
\* observation rows the id has; when the database served it, it ends in the
\* 404 "Indicator not found".
C3_UnknownIdIsNotFound ==
    \A r \in DOMAIN req :
        (Done(r, "get_series") /\ CatalogRows(req[r].series_id) = {}) =>
            /\ req[r].resp.kind = "raise"
            /\ \A i \in 1..Len(req[r].queries) : req[r].queries[i].stmt = "indicators"
            /\ Len(req[r].queries) <= 1
            /\ FaultFree(r) => req[r].resp = NotFound

\* get_series has answered 404 for an id that is not listed and has both a
\* metadata row and observations
C3_Witness ==
    \E r \in DOMAIN req :
        /\ Done(r, "get_series")
        /\ CatalogRows(req[r].series_id) = {}
        /\ MetaRows(req[r].series_id) # {}
        /\ ObsRows(req[r].series_id) # {}
        /\ req[r].resp = NotFound

\* C4: a get_series request for an id with a catalog row never ends in a 404,
\* and returns whenever the database served it: with no metadata row the dict
\* has an empty metadata and None for source and unit, with no observation it
\* has empty full and recent and None for latest.
C4_MissingRowsAreNoError ==
    \A r \in DOMAIN req :
        (Done(r, "get_series") /\ CatalogRows(req[r].series_id) # {}) =>
            /\ req[r].resp.kind = "raise" => req[r].resp.exc.type # "HTTPException"
            /\ FaultFree(r) => req[r].resp.kind = "return"
            /\ req[r].resp.kind = "return" =>
                  LET b == req[r].resp.value
                  IN  /\ MetaRows(req[r].series_id) = {} =>
                            /\ DOMAIN b.metadata = {}
                            /\ b.metadata # None
                            /\ b.source = None
                            /\ b.unit = None
                      /\ ObsRows(req[r].series_id) = {} =>
                            /\ b.full = <<>>
                            /\ b.recent = <<>>
                            /\ b.latest = None

\* get_series has returned for a listed id with neither metadata nor observations
C4_Witness ==
    \E r \in DOMAIN req :
        /\ DoneReturned(r, "get_series")
        /\ MetaRows(req[r].series_id) = {}
        /\ ObsRows(req[r].series_id) = {}
        /\ req[r].resp.value.full = <<>>

\* the handler of slot r holds a connection it has not closed yet
Holding(r) ==
    req[r].pc \in {"q_title", "q_meta", "q_obs", "q_list", "finally"}

\* C5: under any interleaving of the requests, a handler that holds a
\* connection holds an open one that no other handler holds, and every open
\* connection is held by a handler that has not finished: each request has
\* closed its own connection when it ends, by a return, a 404 or a driver
\* error, and no connection is open when no request is in flight.
C5_ConnectionsAreScoped ==
    /\ \A r \in DOMAIN req : Holding(r) => req[r].conn \in conns
    /\ \A r1, r2 \in DOMAIN req :
          (Holding(r1) /\ Holding(r2) /\ r1 # r2) => req[r1].conn # req[r2].conn
    /\ conns \subseteq {req[r].conn : r \in {x \in DOMAIN req : Holding(x)}}
    /\ (\A r \in DOMAIN req : ~Holding(r)) => conns = {}

\* one request has ended in the 404 after holding a connection, while another
\* still holds its own, the only one open
C5_Witness ==
    \E r1, r2 \in DOMAIN req :
        /\ r1 # r2
        /\ Done(r1, "get_series")
        /\ req[r1].resp = NotFound
        /\ req[r1].conn # NoConn
        /\ Holding(r2)
        /\ conns = {req[r2].conn}

\* entry a of the list is placed before entry b by priority, None last, then id
ListedBefore(a, b) ==
    LET pa == a.metadata.display_priority
        pb == b.metadata.display_priority
    IN  \/ pa # None /\ pb = None
        \/ pa # None /\ pb # None /\ pa.int < pb.int
        \/ /\ (pa = None /\ pb = None) \/ (pa # None /\ pb # None /\ pa.int = pb.int)
           /\ IdRank(a.id.str) < IdRank(b.id.str)

\* C6: whenever list_indicators returns, the list has one entry per catalog
\* row and no other, an entry of a row without metadata has None in every
\* metadata field, source and unit, an entry of a row with metadata carries
\* its priority, and each entry is placed before the next by display_priority
\* ascending, None after every number, ties by id ascending; an empty catalog
\* gives the empty list.
C6_ListIsCompleteAndOrdered ==
    \A r \in DOMAIN req :
        DoneReturned(r, "list_indicators") =>
            LET L == req[r].resp.value
            IN  /\ Len(L) = Cardinality(indicators)
                /\ \A i \in indicators : \E k \in 1..Len(L) :
                      /\ L[k].id = i.id
                      /\ L[k].title = i.title
                      /\ DOMAIN L[k].metadata = ListMetaKeys
                      /\ MetaRows(i.id.str) = {} =>
                            /\ \A f \in ListMetaKeys : L[k].metadata[f] = None
                            /\ L[k].source = None
                            /\ L[k].unit = None
                      /\ \A m \in MetaRows(i.id.str) :
                            /\ L[k].metadata.display_priority = Adapt(m.display_priority)
                            /\ L[k].source = Adapt(m.source)
                /\ \A k \in 1..(Len(L) - 1) : ListedBefore(L[k], L[k + 1])
                /\ indicators = {} => L = <<>>

\* list_indicators has returned three entries: two of one priority in id
\* order, then one without metadata whose id is the least of the three
C6_Witness ==
    \E r \in DOMAIN req :
        /\ DoneReturned(r, "list_indicators")
        /\ Len(req[r].resp.value) = 3
        /\ req[r].resp.value[1].id = Str("gdp")
        /\ req[r].resp.value[2].id = Str("m2")
        /\ req[r].resp.value[1].metadata.display_priority =
              req[r].resp.value[2].metadata.display_priority
        /\ req[r].resp.value[3].id = Str("cpi")
        /\ req[r].resp.value[3].metadata.display_priority = None
        /\ MetaRows("cpi") = {}

\* a refresh request has its answer: the fixed acknowledgement, with no
\* connection opened and no statement run
RefreshAnswered ==
    \A r \in DOMAIN req :
        Done(r, "refresh") =>
            /\ req[r].resp = Returned(RefreshAck)
            /\ req[r].conn = NoConn
            /\ req[r].queries = <<>>

\* a step of a refresh handler changes no table and opens no connection
RefreshStep ==
    (\E r \in DOMAIN req : req[r].pc = "refresh" /\ req'[r].pc # "refresh")
        => UNCHANGED <<tables, conns>>

\* C7: refresh, for any id and by GET or POST, returns the fixed
\* acknowledgement, never raises, opens no connection, runs no statement and
\* leaves every table unchanged.
C7_RefreshIsAStub == [](RefreshAnswered) /\ [][RefreshStep]_vars

\* refresh has answered a POST for an id that is not listed
C7_Witness ==
    \E r \in DOMAIN req :
        /\ Done(r, "refresh")
        /\ req[r].method = "POST"
        /\ CatalogRows(req[r].series_id) = {}
        /\ req[r].resp = Returned(RefreshAck)

\* C8: when DATABASE_URL is not set, no connection is ever open, and every
\* get_series and list_indicators request ends in the RuntimeError of
\* get_conn with no connection opened and no statement run.
C8_UnsetUrlFailsFast ==
    ~Truthy(DATABASE_URL) =>
        /\ conns = {}
        /\ \A r \in DOMAIN req :
              /\ req[r].conn = NoConn
              /\ req[r].queries = <<>>
              /\ (Done(r, "get_series") \/ Done(r, "list_indicators")) =>
                    req[r].resp = Raised(RuntimeError("DATABASE_URL env var not set"))

\* get_series has failed for a listed id with DATABASE_URL set to the empty string
C8_Witness ==
    \E r \in DOMAIN req :
        /\ DATABASE_URL = Str("")
        /\ Done(r, "get_series")
        /\ CatalogRows(req[r].series_id) # {}
        /\ req[r].resp.kind = "raise"
        /\ req[r].resp.exc.type = "RuntimeError"

\* the value of field f that merging the metadata row over the indicator gives
MergedField(id, f) ==
    LET own == CHOOSE i \in CatalogRows(id) : TRUE
    IN  IF \E m \in MetaRows(id) : m[f] # NULL
        THEN Adapt((CHOOSE m \in MetaRows(id) : m[f] # NULL)[f])
        ELSE Adapt(own[f])

\* C9 as claimed: whenever get_series returns, source and unit are the metadata
\* row's value when it provides one and otherwise the indicator's own value.
C9_MergedPreferringMetadata ==
    \A r \in DOMAIN req :
        DoneReturned(r, "get_series") =>
            /\ req[r].resp.value.source = MergedField(req[r].series_id, "source")
            /\ req[r].resp.value.unit = MergedField(req[r].series_id, "unit")

\* the value of field f that the metadata row alone gives
MetadataField(id, f) ==
    IF MetaRows(id) = {} THEN None
    ELSE Adapt((CHOOSE m \in MetaRows(id) : TRUE)[f])

\* C9 as amended: whenever get_series returns, source and unit are the
\* metadata row's values, None when the row has none or there is no row; the
\* indicator's own source and unit are not used.
C9_SourceAndUnitFromMetadataOnly ==
    \A r \in DOMAIN req :
        DoneReturned(r, "get_series") =>
            /\ req[r].resp.value.source = MetadataField(req[r].series_id, "source")
            /\ req[r].resp.value.unit = MetadataField(req[r].series_id, "unit")

\* get_series has returned None for the source of an indicator that has a
\* source of its own and no metadata row
C9_Witness ==
    \E r \in DOMAIN req :
        /\ DoneReturned(r, "get_series")
        /\ MetaRows(req[r].series_id) = {}
        /\ \E i \in CatalogRows(req[r].series_id) : i.source = Str("BLS")
        /\ req[r].resp.value.source = None

\* the outcomes the claim compares: a returned dict or the 404
Answered(r) ==
    /\ Done(r, "get_series")
    /\ \/ req[r].resp.kind = "return"
       \/ req[r].resp.kind = "raise" /\ req[r].resp.exc.type = "HTTPException"

\* any two answers get_series has given for one id are the same
SameAnswers ==
    \A r1, r2 \in DOMAIN req :
        (Answered(r1) /\ Answered(r2) /\ req[r1].series_id = req[r2].series_id)
            => req[r1].resp = req[r2].resp

\* C10: the calls of get_series for an id, however many and however
\* interleaved, all give the same answer (the same dict or the same 404), and
\* no step of the service changes a table.
C10_GetSeriesIsIdempotent == [](SameAnswers) /\ [][UNCHANGED tables]_vars

\* two calls for the listed id have both returned its dict
C10_Witness ==
    \E r1, r2 \in DOMAIN req :
        /\ r1 # r2
        /\ DoneReturned(r1, "get_series")
        /\ DoneReturned(r2, "get_series")
        /\ req[r1].series_id = req[r2].series_id
        /\ req[r1].resp.value.full # <<>>

====
